---- MODULE Spec2Model ----
(***************************************************************************)
(* csv_repair: repair of naively comma-split CSV rows (core.py).           *)
(*                                                                         *)
(* A text value (a line, a field, a column name, an answer typed at the    *)
(* prompt) is a sequence of one-character strings, so that splitting,      *)
(* joining, stripping and matching are computed character by character.    *)
(* Column indices are the 0-based indices of the Python code; element idx  *)
(* of a Python list is element idx + 1 of the sequence that models it.     *)
(* Scores and profile statistics are exact rationals <<num, den>> with     *)
(* den > 0, kept in lowest terms; the code computes them in binary         *)
(* floating point.                                                         *)
(***************************************************************************)
EXTENDS Integers, Sequences, FiniteSets

VARIABLES
    lines,                \* the input file, one text per line, line ends removed
    description_column,   \* the caller's argument: [is_str, names]
    pc,                   \* where repair() stands
    header_parts,
    expected_columns,
    description_indices,
    profiles,
    k,                    \* 0-based position of the loop in lines[1:]
    repaired_rows,
    pending,              \* the call of _ask_user_to_choose in progress, if any
    output,               \* rows handed to the output file by this run
    writes,               \* how many times this run wrote the output file
    error,                \* the exception that ended the run, if any
    asked                 \* line numbers for which a prompt was shown (history)

vars == <<lines, description_column, pc, header_parts, expected_columns,
          description_indices, profiles, k, repaired_rows, pending, output,
          writes, error, asked>>

-----------------------------------------------------------------------------
(* Bounds of the model and sets the inputs are drawn from.                 *)

MaxDataFields == 4

COMMA == ","

-----------------------------------------------------------------------------
(* Sequences and texts.                                                     *)

Range(s) == {s[i] : i \in DOMAIN s}

Slice(s, from, to) == [i \in 1..(to - from + 1) |-> s[from + i - 1]]

Max(a, b) == IF a >= b THEN a ELSE b
Min(a, b) == IF a <= b THEN a ELSE b

RECURSIVE Repeat(_, _)
Repeat(x, n) == IF n <= 0 THEN <<>> ELSE <<x>> \o Repeat(x, n - 1)

\* ",".join(fields)
RECURSIVE Join(_)
Join(fields) ==
    IF Len(fields) = 0 THEN <<>>
    ELSE IF Len(fields) = 1 THEN fields[1]
    ELSE fields[1] \o <<COMMA>> \o Join(Tail(fields))

\* line.split(","): never empty; the empty text gives one empty field
RECURSIVE _split_line(_)
_split_line(line) ==
    IF \A i \in DOMAIN line : line[i] # COMMA THEN <<line>>
    ELSE LET p == CHOOSE i \in DOMAIN line :
                      line[i] = COMMA /\ \A j \in 1..(i - 1) : line[j] # COMMA
         IN  <<Slice(line, 1, p - 1)>> \o _split_line(Slice(line, p + 1, Len(line)))

-----------------------------------------------------------------------------
(* Exact rationals.                                                         *)

RECURSIVE Gcd(_, _)
Gcd(a, b) == IF b = 0 THEN a ELSE Gcd(b, a % b)

AbsInt(n) == IF n < 0 THEN -n ELSE n

Rat(n, d) ==
    LET g == Gcd(AbsInt(n), d)
    IN  IF g = 0 THEN <<0, 1>> ELSE <<n \div g, d \div g>>

RAdd(a, b) == Rat(a[1] * b[2] + b[1] * a[2], a[2] * b[2])
RSub(a, b) == Rat(a[1] * b[2] - b[1] * a[2], a[2] * b[2])
RMul(a, b) == Rat(a[1] * b[1], a[2] * b[2])
\* a / b for b > 0
RDiv(a, b) == Rat(a[1] * b[2], a[2] * b[1])
RAbs(a) == <<AbsInt(a[1]), a[2]>>
RLe(a, b) == a[1] * b[2] <= b[1] * a[2]
RLt(a, b) == a[1] * b[2] < b[1] * a[2]
RGe(a, b) == RLe(b, a)
RGt(a, b) == RLt(b, a)
REq(a, b) == a[1] * b[2] = b[1] * a[2]
RInt(n) == <<n, 1>>

-----------------------------------------------------------------------------
(* _is_number                                                               *)

DecimalDigits == {"0", "1", "2", "3", "4", "5", "6", "7", "8", "9"}
Whitespace == {" ", "\t"}

\* str.strip()
RECURSIVE strip(_)
strip(s) ==
    IF Len(s) = 0 THEN s
    ELSE IF s[1] \in Whitespace THEN strip(Tail(s))
    ELSE IF s[Len(s)] \in Whitespace THEN strip(SubSeq(s, 1, Len(s) - 1))
    ELSE s

AllDecimal(s) == Len(s) >= 1 /\ \A i \in DOMAIN s : s[i] \in DecimalDigits

\* (\.\d+)? matching the whole of s
OptFraction(s) ==
    \/ Len(s) = 0
    \/ Len(s) >= 2 /\ s[1] = "." /\ AllDecimal(Slice(s, 2, Len(s)))

\* [+-]? consumed
Unsigned(s) == IF Len(s) >= 1 /\ s[1] \in {"+", "-"} THEN Tail(s) ELSE s

\* re.fullmatch(r"[+-]?\d+(\.\d+)?", s)
MatchesPlainNumber(s) ==
    LET u == Unsigned(s)
    IN  \E n \in 1..Len(u) :
            /\ AllDecimal(Slice(u, 1, n))
            /\ OptFraction(Slice(u, n + 1, Len(u)))

\* re.fullmatch(r"[+-]?\d{1,3}(,\d{3})+(\.\d+)?", s)
MatchesGroupedNumber(s) ==
    LET u == Unsigned(s)
    IN  \E n \in 1..3 : \E g \in 1..(Len(u) \div 4) :
            /\ n + 4 * g <= Len(u)
            /\ AllDecimal(Slice(u, 1, n))
            /\ \A j \in 0..(g - 1) :
                   /\ u[n + 4 * j + 1] = COMMA
                   /\ AllDecimal(Slice(u, n + 4 * j + 2, n + 4 * j + 4))
            /\ OptFraction(Slice(u, n + 4 * g + 1, Len(u)))

_is_number(value) ==
    IF value = <<>> THEN FALSE
    ELSE LET cleaned == strip(value)
         IN  MatchesPlainNumber(cleaned) \/ MatchesGroupedNumber(cleaned)

-----------------------------------------------------------------------------
(* _column_profiles                                                         *)

\* the rows that are sampled: non-blank lines whose field count is expected
RECURSIVE SampledRows(_, _)
SampledRows(data, n) ==
    IF Len(data) = 0 THEN <<>>
    ELSE LET line == Head(data)
             parts == _split_line(line)
         IN  IF line = <<>> THEN SampledRows(Tail(data), n)
             ELSE IF Len(parts) # n THEN SampledRows(Tail(data), n)
             ELSE <<parts>> \o SampledRows(Tail(data), n)

\* what one sampled value adds to the accumulators of its column
LenOf(value) == Len(value)
NonEmptyOf(value) == IF value # <<>> THEN 1 ELSE 0
NumericOf(value) == IF _is_number(value) THEN 1 ELSE 0

RECURSIVE Totals(_, _)
Totals(rows, idx) ==
    IF Len(rows) = 0 THEN 0
    ELSE LenOf(Head(rows)[idx + 1]) + Totals(Tail(rows), idx)

RECURSIVE NumericCounts(_, _)
NumericCounts(rows, idx) ==
    IF Len(rows) = 0 THEN 0
    ELSE NumericOf(Head(rows)[idx + 1]) + NumericCounts(Tail(rows), idx)

RECURSIVE NonEmptyCounts(_, _)
NonEmptyCounts(rows, idx) ==
    IF Len(rows) = 0 THEN 0
    ELSE NonEmptyOf(Head(rows)[idx + 1]) + NonEmptyCounts(Tail(rows), idx)

\* a dict: its keys are the DOMAIN; no sampled row gives the empty dict
_column_profiles(data, n) ==
    LET rows == SampledRows(data, n)
        count == Len(rows)
    IN  [idx \in (IF count = 0 THEN {} ELSE 0..(n - 1)) |->
            [mean_length |-> Rat(Totals(rows, idx), count),
             numeric_ratio |-> Rat(NumericCounts(rows, idx), count),
             non_empty_ratio |-> Rat(NonEmptyCounts(rows, idx), count)]]

-----------------------------------------------------------------------------
(* _repair_parts_at_index, _candidate_score, _is_candidate_valid            *)

\* parts[-n:] for n > 0
LastN(parts, n) == SubSeq(parts, Max(1, Len(parts) - n + 1), Len(parts))

\* variant: no case for trailing_columns = 0, where parts[-0:] is all of parts
RepairAtIndexSlicingFromMinusZero(parts, n, description_index) ==
    LET trailing_columns == n - description_index - 1
        left == SubSeq(parts, 1, description_index)
        right == IF trailing_columns = 0 THEN parts
                 ELSE LastN(parts, trailing_columns)
        middle == SubSeq(parts, description_index + 1,
                         Len(parts) - trailing_columns)
    IN  left \o <<Join(middle)>> \o right

\* variant: the description is the one field at description_index, and the
\* surplus fields after it are dropped
RepairAtIndexDroppingSurplus(parts, n, description_index) ==
    LET trailing_columns == n - description_index - 1
        left == SubSeq(parts, 1, description_index)
    IN  left \o <<parts[description_index + 1]>>
             \o (IF trailing_columns = 0 THEN <<>>
                 ELSE LastN(parts, trailing_columns))

_repair_parts_at_index(parts, n, description_index) ==
    LET trailing_columns == n - description_index - 1
        left == SubSeq(parts, 1, description_index)
    IN  IF trailing_columns = 0
        THEN left \o <<Join(SubSeq(parts, description_index + 1, Len(parts)))>>
        ELSE LET right == LastN(parts, trailing_columns)
                 middle == SubSeq(parts, description_index + 1,
                                  Len(parts) - trailing_columns)
             IN  left \o <<Join(middle)>> \o right

\* what one field adds to the score (the body of the loop)
FieldScore(value, profile, in_text_columns) ==
    LET mean_length == profile.mean_length
        length_penalty == RDiv(RAbs(RSub(RInt(Len(value)), mean_length)),
                               RAdd(mean_length, RInt(1)))
        weight == IF in_text_columns THEN <<6, 10>> ELSE <<1, 1>>
        s1 == RMul(weight, length_penalty)
        s2 == IF RGe(profile.numeric_ratio, <<8, 10>>) /\ ~_is_number(value)
              THEN RAdd(s1, <<5, 1>>) ELSE s1
        s3 == IF RLe(profile.numeric_ratio, <<2, 10>>) /\ _is_number(value)
              THEN RAdd(s2, <<5, 2>>) ELSE s2
    IN  IF RGe(profile.non_empty_ratio, <<95, 100>>) /\ value = <<>>
        THEN RAdd(s3, <<2, 1>>) ELSE s3

RECURSIVE ScoreFrom(_, _, _, _)
ScoreFrom(row, prof, text_columns, idx) ==
    IF idx >= Len(row) THEN <<0, 1>>
    ELSE LET rest == ScoreFrom(row, prof, text_columns, idx + 1)
         IN  IF idx \notin DOMAIN prof THEN rest
             ELSE RAdd(FieldScore(row[idx + 1], prof[idx], idx \in text_columns), rest)

\* variant: merging into a column that is not preferred costs nothing
CandidateScoreWithoutPreference(row, prof, preferred_indices, candidate_index) ==
    ScoreFrom(row, prof, Range(preferred_indices), 0)

_candidate_score(row, prof, preferred_indices, candidate_index) ==
    LET text_columns == Range(preferred_indices)
        score == ScoreFrom(row, prof, text_columns, 0)
    IN  IF candidate_index \notin text_columns THEN RAdd(score, <<5, 10>>)
        ELSE score

_is_candidate_valid(row, prof) ==
    \A idx \in 0..(Len(row) - 1) :
        idx \in DOMAIN prof =>
            /\ ~(RGe(prof[idx].numeric_ratio, <<8, 10>>) /\ ~_is_number(row[idx + 1]))
            /\ ~(RGe(prof[idx].non_empty_ratio, <<95, 100>>) /\ row[idx + 1] = <<>>)

-----------------------------------------------------------------------------
(* _is_ambiguous, _should_ask_user                                          *)

\* variant: the absolute gap alone decides, without the 15% ratio
IsAmbiguousByGapOnly(candidates) ==
    IF Len(candidates) < 2 THEN FALSE
    ELSE LET best_score == candidates[1].score
             second_score == candidates[2].score
         IN  \/ RLe(RAbs(RSub(second_score, best_score)), <<1, 10>>)
             \/ REq(best_score, <<0, 1>>) /\ REq(second_score, <<0, 1>>)

_is_ambiguous(candidates) ==
    IF Len(candidates) < 2 THEN FALSE
    ELSE LET best_score == candidates[1].score
             second_score == candidates[2].score
         IN  \/ RLe(RAbs(RSub(second_score, best_score)), <<1, 10>>)
             \/ REq(best_score, <<0, 1>>) /\ REq(second_score, <<0, 1>>)
             \/ /\ RGt(best_score, <<0, 1>>)
                /\ RLe(RDiv(second_score, best_score), <<115, 100>>)

_should_ask_user(valid_candidates, preferred_indices) ==
    LET preferred == Range(preferred_indices)
        preferred_valid == SelectSeq(valid_candidates,
                                     LAMBDA item : item.idx \in preferred)
        best_idx == valid_candidates[1].idx
    IN  \/ Len(preferred_valid) > 1
        \/ best_idx \notin preferred /\ Len(valid_candidates) > 1
        \/ /\ Len(valid_candidates) > 1
           /\ RLe(RSub(valid_candidates[2].score, valid_candidates[1].score),
                  <<1, 10>>)

-----------------------------------------------------------------------------
(* _repair_parts                                                            *)

\* list.sort(key=score): stable, so ties keep the order of generation
SortByScore(cands) ==
    LET Before(a, b) == \/ RLt(cands[a].score, cands[b].score)
                        \/ REq(cands[a].score, cands[b].score) /\ a < b
        Rank(a) == Cardinality({b \in DOMAIN cands : Before(b, a)}) + 1
    IN  [r \in DOMAIN cands |-> cands[CHOOSE a \in DOMAIN cands : Rank(a) = r]]

\* The code computes a score in binary floating point.  A value whose
\* denominator is a power of two is held exactly; a score built from such
\* values only is the exact sum, and equal scores are equal floats.
RECURSIVE PowerOfTwo(_)
PowerOfTwo(n) == n = 1 \/ (n % 2 = 0 /\ PowerOfTwo(n \div 2))

ExactScore(row, prof, preferred_indices) ==
    \A idx \in 0..(Len(row) - 1) :
        idx \in DOMAIN prof =>
            LET mean_length == prof[idx].mean_length
                length_penalty ==
                    RDiv(RAbs(RSub(RInt(Len(row[idx + 1])), mean_length)),
                         RAdd(mean_length, RInt(1)))
            IN  /\ PowerOfTwo(mean_length[2])
                /\ PowerOfTwo(length_penalty[2])
                /\ idx \in Range(preferred_indices) => length_penalty[1] = 0

\* list.sort(key=score) on the floats: two candidates whose exact scores are
\* equal keep the order of generation when both floats are exact, and stand
\* in either order when rounding can tell them apart.
AscendingOrders(cands, prof, preferred_indices) ==
    LET D == DOMAIN cands
        Exact(a) == ExactScore(cands[a].row, prof, preferred_indices)
        Same(g) == /\ \A i, j \in D : i # j => g[i] # g[j]
                   /\ \A i \in D : REq(cands[g[i]].score, cands[i].score)
                   /\ \A i, j \in D :
                          (i < j /\ Exact(g[i]) /\ Exact(g[j])
                                 /\ REq(cands[g[i]].score, cands[g[j]].score))
                          => g[i] < g[j]
    IN  {[i \in D |-> cands[g[i]]] : g \in {h \in [D -> D] : Same(h)}}

Candidates(parts, n, preferred_indices, prof) ==
    SortByScore([i \in 1..n |->
        LET row == _repair_parts_at_index(parts, n, i - 1)
        IN  [idx |-> i - 1, row |-> row,
             score |-> _candidate_score(row, prof, preferred_indices, i - 1)]])

Return(row) == [kind |-> "return", row |-> row, candidates |-> <<>>]
Ask(candidates) == [kind |-> "ask", row |-> <<>>, candidates |-> candidates]

\* variant: one empty field, however many are missing
PaddedByOne(parts, n) == parts \o <<<<>>>>

\* parts + [""] * (expected_columns - len(parts))
Padded(parts, n) == parts \o Repeat(<<>>, n - Len(parts))

\* The result is the returned row, or the call of _ask_user_to_choose that
\* stands in the return position.
_repair_parts(parts, n, preferred_indices, prof) ==
    IF Len(parts) = n THEN Return(parts)
    ELSE IF Len(parts) < n THEN Return(Padded(parts, n))
    ELSE
      LET candidates == Candidates(parts, n, preferred_indices, prof)
          valid_candidates ==
              SelectSeq(candidates, LAMBDA item : _is_candidate_valid(item.row, prof))
      IN  IF Len(valid_candidates) = 1 THEN Return(valid_candidates[1].row)
          ELSE IF Len(valid_candidates) > 1
                  /\ _should_ask_user(valid_candidates, preferred_indices)
               THEN Ask(valid_candidates)
          ELSE IF Len(valid_candidates) > 1 THEN Return(valid_candidates[1].row)
          ELSE IF Len(candidates) = 1 THEN Return(candidates[1].row)
          ELSE IF _is_ambiguous(candidates) THEN Ask(candidates)
          ELSE Return(candidates[1].row)

-----------------------------------------------------------------------------
(* _indices_of                                                              *)

Str(name) == [is_str |-> TRUE, names |-> <<name>>]
List(names) == [is_str |-> FALSE, names |-> names]

\* header.index(name): the first index carrying the name (it must occur)
IndexOf(header, name) ==
    (CHOOSE i \in DOMAIN header :
        header[i] = name /\ \A j \in 1..(i - 1) : header[j] # name) - 1

NoError == [type |-> "none", what |-> "", column |-> <<>>, line_number |-> 0]

RECURSIVE IndicesFrom(_, _)
IndicesFrom(header, names) ==
    IF Len(names) = 0 THEN [raised |-> NoError, indices |-> <<>>]
    ELSE IF Head(names) \notin Range(header)
         THEN [raised |-> [type |-> "ValueError", what |-> "column not found",
                           column |-> Head(names), line_number |-> 0],
               indices |-> <<>>]
    ELSE LET rest == IndicesFrom(header, Tail(names))
         IN  [raised |-> rest.raised,
              indices |-> <<IndexOf(header, Head(names))>> \o rest.indices]

\* variant: a name the header lacks is passed over
IndicesOfNamesFound(header, column_name) ==
    LET found == SelectSeq(column_name.names, LAMBDA name : name \in Range(header))
    IN  [raised |-> NoError,
         indices |-> [i \in 1..Len(found) |-> IndexOf(header, found[i])]]

_indices_of(header, column_name) ==
    LET names == column_name.names
    IN  IF Len(names) = 0
        THEN [raised |-> [type |-> "ValueError", what |-> "no description column",
                          column |-> <<>>, line_number |-> 0],
              indices |-> <<>>]
        ELSE IndicesFrom(header, names)

-----------------------------------------------------------------------------
(* _ask_user_to_choose: what one answer read from the channel does          *)

MAX_OPTIONS == 4

\* Characters for which str.isdigit() holds and int() fails: digits that are
\* not decimal characters, such as the superscript two.
SUPERSCRIPT_TWO == "sup2"
NonDecimalDigits == {SUPERSCRIPT_TWO}

\* str.isdigit()
isdigit(s) ==
    Len(s) >= 1 /\ \A i \in DOMAIN s : s[i] \in DecimalDigits \cup NonDecimalDigits

DigitValue(c) ==
    CASE c = "0" -> 0 [] c = "1" -> 1 [] c = "2" -> 2 [] c = "3" -> 3
      [] c = "4" -> 4 [] c = "5" -> 5 [] c = "6" -> 6 [] c = "7" -> 7
      [] c = "8" -> 8 [] c = "9" -> 9

\* int(s) of a text of decimal digits; int() raises ValueError otherwise
RECURSIVE int(_)
int(s) ==
    IF Len(s) = 0 THEN 0
    ELSE 10 * int(SubSeq(s, 1, Len(s) - 1)) + DigitValue(s[Len(s)])

IntRaises(s) == ~AllDecimal(s)

\* One pass of the while loop on an answer that input() returned:
\* "return" with the choice, "again" (the prompt is replaced and the loop
\* repeats), or "raise" (int() raised ValueError, which nothing catches).
AnswerOutcome(text, max_options) ==
    LET answer == strip(text)
    IN  IF isdigit(answer)
        THEN IF IntRaises(answer) THEN [kind |-> "raise", choice |-> 0]
             ELSE LET choice == int(answer)
                  IN  IF 1 <= choice /\ choice <= max_options
                      THEN [kind |-> "return", choice |-> choice]
                      ELSE [kind |-> "again", choice |-> 0]
        ELSE [kind |-> "again", choice |-> 0]

NoPending == [candidates |-> <<>>, line_number |-> 0, raw_line |-> <<>>,
              max_options |-> 0, prompt |-> "none"]

-----------------------------------------------------------------------------
(* Inputs.                                                                  *)

FieldVals == {<<>>, <<"1">>, <<"a">>}

\* every sequence of data lines holding at most f fields in total
RECURSIVE DataUpTo(_)
DataUpTo(f) ==
    {<<>>} \cup
    UNION {{<<Join(r)>> \o d : r \in [1..n -> FieldVals], d \in DataUpTo(f - n)} :
           n \in 1..f}

A == <<"a">>
B == <<"b">>
C == <<"c">>
Z == <<"z">>
ONE == <<"1">>

\* <<header line, description_column>>, run on every DataUpTo(MaxDataFields)
Calls ==
    {<<Join(<<A, B>>), Str(A)>>,
     <<Join(<<A, B>>), Str(B)>>,
     <<Join(<<A, B>>), List(<<A, B>>)>>,
     <<Join(<<A, B>>), List(<<B, A>>)>>,
     <<Join(<<A, B, C>>), Str(B)>>,
     <<Join(<<A>>), Str(A)>>,
     <<Join(<<A, A>>), Str(A)>>,
     <<Join(<<A, B>>), Str(Z)>>,
     <<Join(<<A, B>>), List(<<B, Z>>)>>,
     <<Join(<<A, A>>), List(<<Z, A, C>>)>>,
     <<Join(<<A, B>>), List(<<>>)>>}

ID == <<"I", "D">>
NAME == <<"N", "A", "M", "E">>
DESCRIPTION == <<"D", "E", "S", "C", "R", "I", "P", "T", "I", "O", "N">>
PRICE == <<"P", "R", "I", "C", "E">>
ShinyLine == <<"1", ",", "W", "i", "d", "g", "e", "t", ",", "N", "i", "c", "e", ",", " ", "r", "e", "d", ",", " ", "a", "n", "d", " ", "s", "h", "i", "n", "y", ",", "9", ".", "9", "9">>
WideHeader == Join(<<A, B, C, <<"d">>, <<"e">> >>)
LongSample == <<"a", "a", ",", "a", "a", "a">>
GroupedLine == <<"a", ",", "1", ",", "2", "3", "4">>

\* <<lines, description_column>>: files wider or longer than the bound
\* allows, among them a sampled row beside an overflowing one
Scenarios ==
    {<< <<>>, Str(DESCRIPTION) >>,
     << <<Join(<<ID, NAME, DESCRIPTION, PRICE>>), ShinyLine>>, Str(DESCRIPTION) >>,
     << <<WideHeader, Join(<<ONE, ONE, ONE, ONE, ONE, ONE>>)>>, List(<<A, B>>) >>,
     << <<WideHeader, Join(<<ONE, ONE, ONE, ONE, ONE>>),
          Join(<<ONE, ONE, ONE, ONE, ONE, ONE>>)>>, List(<<A, B>>) >>,
     << <<Join(<<A, B>>), Join(<<ONE, A, ONE>>), <<>>, Join(<<A, ONE, A>>)>>,
        List(<<A, B>>) >>,
     << <<Join(<<A, B>>), Join(<<A, ONE>>), GroupedLine>>, Str(A) >>,
     << <<Join(<<A, B>>), LongSample, Join(<<A, A, A>>)>>, Str(A) >>,
     << <<Join(<<A, B>>), <<>>, ONE, <<",", ",">>>>, List(<<A, B>>) >>,
     << <<Join(<<A, B>>), <<",", ",">>, Join(<<ONE, ONE>>)>>, Str(A) >>,
     << <<Join(<<A, B>>), <<",", ",">>, <<",">>>>, List(<<A, B>>) >>,
     << <<Join(<<A, B>>), <<",", ",", "1">>, <<",">>>>, Str(A) >>,
     << <<Join(<<A, B>>), <<",", ",", "1">>, Join(<<A, A>>)>>, Str(B) >>,
     << <<Join(<<A, B>>), <<",", ",">>, <<",", "1">>>>, List(<<A, B>>) >>}

Answers ==
    {<<"1">>, <<"2">>, <<"3">>, <<"4">>, <<"5">>, <<"0">>, <<"x">>, <<>>,
     <<" ", "2", " ">>, <<"0", "1">>, <<"-", "1">>, <<SUPERSCRIPT_TWO>>}

-----------------------------------------------------------------------------
(* repair                                                                   *)

ENUMERATE_START == 2

data == Tail(lines)

\* variant: the rows appended so far are counted, not the lines of the file
RowsSoFar == Len(repaired_rows) + 1

line_number == k + ENUMERATE_START
line == data[k + 1]

Init ==
    /\ \/ \E c \in Calls, d \in DataUpTo(MaxDataFields) :
             /\ lines = <<c[1]>> \o d
             /\ description_column = c[2]
       \/ \E c \in Scenarios :
             /\ lines = c[1]
             /\ description_column = c[2]
    /\ pc = "start"
    /\ header_parts = <<>>
    /\ expected_columns = 0
    /\ description_indices = <<>>
    /\ profiles = <<>>
    /\ k = 0
    /\ repaired_rows = <<>>
    /\ pending = NoPending
    /\ output = <<>>
    /\ writes = 0
    /\ error = NoError
    /\ asked = {}

\* lines 34-36: an empty file gives an empty output file
WriteEmpty ==
    /\ pc = "start"
    /\ lines = <<>>
    /\ output' = <<>>
    /\ writes' = writes + 1
    /\ pc' = "done"
    /\ UNCHANGED <<lines, description_column, header_parts, expected_columns,
                   description_indices, profiles, k, repaired_rows, pending,
                   error, asked>>

\* lines 38-40, _indices_of returning
ResolveColumns ==
    /\ pc = "start"
    /\ lines # <<>>
    /\ LET parts == _split_line(lines[1])
           found == _indices_of(parts, description_column)
       IN  /\ found.raised.type = "none"
           /\ header_parts' = parts
           /\ expected_columns' = Len(parts)
           /\ description_indices' = found.indices
    /\ pc' = "profile"
    /\ UNCHANGED <<lines, description_column, profiles, k, repaired_rows,
                   pending, output, writes, error, asked>>

\* lines 38-40, _indices_of raising
RejectColumns ==
    /\ pc = "start"
    /\ lines # <<>>
    /\ LET parts == _split_line(lines[1])
           found == _indices_of(parts, description_column)
       IN  /\ found.raised.type # "none"
           /\ header_parts' = parts
           /\ expected_columns' = Len(parts)
           /\ error' = found.raised
    /\ pc' = "failed"
    /\ UNCHANGED <<lines, description_column, description_indices, profiles, k,
                   repaired_rows, pending, output, writes, asked>>

\* lines 41-43
BuildProfiles ==
    /\ pc = "profile"
    /\ profiles' = _column_profiles(data, expected_columns)
    /\ repaired_rows' = <<header_parts>>
    /\ k' = 0
    /\ pc' = "rows"
    /\ UNCHANGED <<lines, description_column, header_parts, expected_columns,
                   description_indices, pending, output, writes, error, asked>>

\* lines 45-47: a blank line is skipped
SkipBlank ==
    /\ pc = "rows"
    /\ k < Len(data)
    /\ line = <<>>
    /\ k' = k + 1
    /\ UNCHANGED <<lines, description_column, pc, header_parts, expected_columns,
                   description_indices, profiles, repaired_rows, pending, output,
                   writes, error, asked>>

Repaired == _repair_parts(_split_line(line), expected_columns,
                          description_indices, profiles)

\* lines 49-59, _repair_parts returning a row without a prompt
RepairRow ==
    /\ pc = "rows"
    /\ k < Len(data)
    /\ line # <<>>
    /\ Repaired.kind = "return"
    /\ repaired_rows' = Append(repaired_rows, Repaired.row)
    /\ k' = k + 1
    /\ UNCHANGED <<lines, description_column, pc, header_parts, expected_columns,
                   description_indices, profiles, pending, output, writes, error,
                   asked>>

\* lines 49-58 and 267-279: _repair_parts calls _ask_user_to_choose, which
\* builds the first prompt and enters its loop
AskUser ==
    /\ pc = "rows"
    /\ k < Len(data)
    /\ line # <<>>
    /\ Repaired.kind = "ask"
    /\ \E listed \in AscendingOrders(Repaired.candidates, profiles,
                                    description_indices) :
         pending' = [candidates |-> listed,
                     line_number |-> line_number,
                     raw_line |-> line,
                     max_options |-> Min(MAX_OPTIONS, Len(listed)),
                     prompt |-> "choose"]
    /\ asked' = asked \cup {line_number}
    /\ pc' = "prompt"
    /\ UNCHANGED <<lines, description_column, header_parts, expected_columns,
                   description_indices, profiles, k, repaired_rows, output,
                   writes, error>>

\* lines 283, 289-292 and 59: an answer in range; the chosen row is appended
AnswerSelects ==
    /\ pc = "prompt"
    /\ \E text \in Answers :
         LET got == AnswerOutcome(text, pending.max_options)
         IN  /\ got.kind = "return"
             /\ repaired_rows' =
                    Append(repaired_rows, pending.candidates[got.choice].row)
    /\ k' = k + 1
    /\ pending' = NoPending
    /\ pc' = "rows"
    /\ UNCHANGED <<lines, description_column, header_parts, expected_columns,
                   description_indices, profiles, output, writes, error, asked>>

\* lines 283, 289-294: any other answer the loop survives; the prompt changes
AnswerRejected ==
    /\ pc = "prompt"
    /\ \E text \in Answers :
         AnswerOutcome(text, pending.max_options).kind = "again"
    /\ pending' = [pending EXCEPT !.prompt = "invalid selection"]
    /\ UNCHANGED <<lines, description_column, pc, header_parts, expected_columns,
                   description_indices, profiles, k, repaired_rows, output,
                   writes, error, asked>>

\* lines 289-290: isdigit() accepts the answer and int() raises ValueError
AnswerRaises ==
    /\ pc = "prompt"
    /\ \E text \in Answers :
         AnswerOutcome(text, pending.max_options).kind = "raise"
    /\ error' = [type |-> "ValueError", what |-> "invalid literal for int()",
                 column |-> <<>>, line_number |-> 0]
    /\ pc' = "failed"
    /\ UNCHANGED <<lines, description_column, header_parts, expected_columns,
                   description_indices, profiles, k, repaired_rows, pending,
                   output, writes, asked>>

\* variant: the rows repaired so far are written before the failure
InputUnavailableWritingRows ==
    /\ pc = "prompt"
    /\ error' = [type |-> "AmbiguousRowError", what |-> "ambiguous row",
                 column |-> <<>>, line_number |-> pending.line_number]
    /\ output' = repaired_rows
    /\ writes' = writes + 1
    /\ pc' = "failed"
    /\ UNCHANGED <<lines, description_column, header_parts, expected_columns,
                   description_indices, profiles, k, repaired_rows, pending,
                   asked>>

\* lines 284-287: input() raises EOFError or OSError
InputUnavailable ==
    /\ pc = "prompt"
    /\ error' = [type |-> "AmbiguousRowError", what |-> "ambiguous row",
                 column |-> <<>>, line_number |-> pending.line_number]
    /\ pc' = "failed"
    /\ UNCHANGED <<lines, description_column, header_parts, expected_columns,
                   description_indices, profiles, k, repaired_rows, pending,
                   output, writes, asked>>

\* lines 61-63
WriteOutput ==
    /\ pc = "rows"
    /\ k = Len(data)
    /\ output' = repaired_rows
    /\ writes' = writes + 1
    /\ pc' = "done"
    /\ UNCHANGED <<lines, description_column, header_parts, expected_columns,
                   description_indices, profiles, k, repaired_rows, pending,
                   error, asked>>

Next ==
    \/ WriteEmpty
    \/ ResolveColumns
    \/ RejectColumns
    \/ BuildProfiles
    \/ SkipBlank
    \/ RepairRow
    \/ AskUser
    \/ AnswerSelects
    \/ AnswerRejected
    \/ AnswerRaises
    \/ InputUnavailable
    \/ WriteOutput

Spec == Init /\ [][Next]_vars

-----------------------------------------------------------------------------
(* What the properties speak of, counted on the input file itself.          *)

CountCommas(text) == Cardinality({i \in DOMAIN text : text[i] = COMMA})
NumFields(text) == CountCommas(text) + 1

\* the number of fields of the header line
Width == NumFields(lines[1])

\* repaired_rows holds the header and the rows of the loop
Started == repaired_rows # <<>>

\* data[p] is line p + 1 of the file: the header is line 1
FileLine(p) == p + 1

\* where the row of the non-blank data line data[p] stands in the rows
RowIndex(p) == Cardinality({q \in 1..(p - 1) : data[q] # <<>>}) + 2

\* the data lines the loop has resolved
Resolved == {p \in 1..k : data[p] # <<>>}

Overflows(text) == NumFields(text) > Width

ConfigurationError ==
    error.type = "ValueError" /\ error.what \in {"column not found", "no description column"}

-----------------------------------------------------------------------------
\* C1: every row emitted (the header row, passed-through, padded and rebuilt
\* rows, and every row a prompt offers) has exactly as many fields as the
\* header line.
C1_RowsHaveExpectedColumns ==
    lines # <<>> =>
        /\ \A i \in DOMAIN repaired_rows : Len(repaired_rows[i]) = Width
        /\ \A i \in DOMAIN output : Len(output[i]) = Width
        /\ \A i \in DOMAIN pending.candidates :
               Len(pending.candidates[i].row) = Width
        /\ Started => expected_columns = Width

C1_Witness ==
    /\ pc = "done"
    /\ asked # {}
    /\ \E p \in DOMAIN data : data[p] # <<>> /\ NumFields(data[p]) < Width
    /\ Len(output) >= 3

\* C2: a successful run writes the header and one row per non-blank data
\* line, in order, and each row joined by commas is its line followed by one
\* comma per missing field; well-formed rows come back as they were.
C2_OutputIsInput ==
    pc = "done" =>
        IF lines = <<>> THEN output = <<>>
        ELSE /\ Len(output) = 1 + Cardinality({p \in DOMAIN data : data[p] # <<>>})
             /\ Join(output[1]) = lines[1]
             /\ \A p \in DOMAIN data :
                    data[p] # <<>> =>
                        /\ Join(output[RowIndex(p)]) =
                               data[p] \o Repeat(COMMA, Max(0, Width - NumFields(data[p])))
                        /\ NumFields(data[p]) = Width =>
                               \A j \in 1..Width :
                                   CountCommas(output[RowIndex(p)][j]) = 0

C2_Witness ==
    /\ pc = "done"
    /\ asked # {}
    /\ \E p \in DOMAIN data : data[p] = <<>>
    /\ \E p \in DOMAIN data : data[p] # <<>> /\ NumFields(data[p]) < Width

\* C3: with one preferred column declared and no well-formed data row, every
\* overflowing row is repaired without a prompt: the fields before the
\* preferred index and after it are the first and last raw fields, and the
\* preferred column holds the span between them joined by commas.
C3_SinglePreferredMerges ==
    (/\ Started
     /\ Len(description_column.names) = 1
     /\ \A p \in DOMAIN data : data[p] # <<>> => NumFields(data[p]) # Width)
    =>
        /\ asked = {}
        /\ pc # "prompt"
        /\ \A p \in Resolved :
               Overflows(data[p]) =>
                   LET raw == _split_line(data[p])
                       n == Len(raw)
                       name == description_column.names[1]
                       at == CHOOSE i \in 1..Width :
                                 /\ header_parts[i] = name
                                 /\ \A j \in 1..(i - 1) : header_parts[j] # name
                       row == repaired_rows[RowIndex(p)]
                   IN  /\ Len(row) = Width
                       /\ \A j \in 1..(at - 1) : row[j] = raw[j]
                       /\ \A j \in (at + 1)..Width : row[j] = raw[n - (Width - j)]
                       /\ row[at] = Join(SubSeq(raw, at, n - (Width - at)))

C3_Witness ==
    /\ pc = "done"
    /\ lines = <<Join(<<ID, NAME, DESCRIPTION, PRICE>>), ShinyLine>>
    /\ output[2] = <<ONE, <<"W", "i", "d", "g", "e", "t">>, <<"N", "i", "c", "e", ",", " ", "r", "e", "d", ",", " ", "a", "n", "d", " ", "s", "h", "i", "n", "y">>, <<"9", ".", "9", "9">>>>

\* C4: on a file with a header, a declared name that the header lacks ends
\* the run with the error naming a missing column before anything was
\* profiled, repaired, asked or written; otherwise every declared name
\* resolves to the first header index that carries it.
C4_MissingColumnFailsFirst ==
    (lines # <<>> /\ pc # "start") =>
        LET header == _split_line(lines[1])
            names == description_column.names
            Missing == {i \in DOMAIN names : names[i] \notin Range(header)}
        IN  /\ Missing # {} =>
                /\ pc = "failed"
                /\ error.type = "ValueError"
                /\ error.what = "column not found"
                /\ error.column \in {names[i] : i \in Missing}
                /\ repaired_rows = <<>> /\ profiles = <<>> /\ k = 0
                /\ asked = {} /\ writes = 0 /\ output = <<>>
            /\ (Missing = {} /\ names # <<>>) =>
                /\ Len(description_indices) = Len(names)
                /\ \A i \in DOMAIN names :
                       /\ header[description_indices[i] + 1] = names[i]
                       /\ \A j \in 1..description_indices[i] : header[j] # names[i]

C4_Witness ==
    /\ pc = "failed"
    /\ error.column = Z
    /\ description_column.names = <<B, Z>>
    /\ \E p \in DOMAIN data : Overflows(data[p])

\* C5: a closed channel ends the run with AmbiguousRowError carrying the
\* 1-based file line of the escalated row (header line 1, blank lines
\* counted); the loop stands at that row, no later row was resolved and
\* nothing was written.
C5_ClosedChannelNamesLine ==
    error.type = "AmbiguousRowError" =>
        LET n == error.line_number
        IN  /\ pc = "failed"
            /\ n \in 2..Len(lines)
            /\ lines[n] = pending.raw_line
            /\ Overflows(lines[n])
            /\ n \in asked
            /\ k = n - 2
            /\ Len(repaired_rows) =
                   1 + Cardinality({q \in 2..(n - 1) : lines[q] # <<>>})
            /\ writes = 0

C5_Witness ==
    /\ error.type = "AmbiguousRowError"
    /\ pending.prompt = "invalid selection"
    /\ \E q \in 2..(error.line_number - 1) : lines[q] = <<>>

\* C6: the output is written at most once, only by a run that ends well and
\* only after every data row was resolved; a failed run writes nothing.
C6_OutputAllOrNothing ==
    /\ writes <= 1
    /\ writes = 0 => output = <<>>
    /\ pc = "done" <=> writes = 1
    /\ pc = "failed" => writes = 0
    /\ (writes = 1 /\ lines # <<>>) =>
           /\ output = repaired_rows
           /\ k = Len(data)
           /\ Len(output) = 1 + Cardinality({p \in DOMAIN data : data[p] # <<>>})

C6_Witness ==
    /\ pc = "failed"
    /\ error.type = "AmbiguousRowError"
    /\ error.line_number = Len(lines)
    /\ Cardinality(asked) >= 2
    /\ Len(repaired_rows) >= 2

\* C7: a non-blank data row with at most as many fields as the header is
\* never asked about and never fails as ambiguous; its row is its raw
\* fields, followed by empty fields up to the header's width.
C7_ShortRowsPassOrPad ==
    Started =>
        /\ \A n \in asked : Overflows(lines[n])
        /\ pc = "prompt" => Overflows(data[k + 1])
        /\ error.type = "AmbiguousRowError" => Overflows(lines[error.line_number])
        /\ \A p \in Resolved :
               ~Overflows(data[p]) =>
                   LET raw == _split_line(data[p])
                       row == repaired_rows[RowIndex(p)]
                   IN  /\ Len(row) = Width
                       /\ \A j \in 1..Width :
                              row[j] = IF j <= Len(raw) THEN raw[j] ELSE <<>>

C7_Witness ==
    /\ pc = "done"
    /\ profiles # <<>>
    /\ \E p \in DOMAIN data : NumFields(data[p]) = Width
    /\ \E p \in DOMAIN data :
           /\ data[p] # <<>>
           /\ NumFields(data[p]) < Width
           /\ ~_is_candidate_valid(output[RowIndex(p)], profiles)

\* C8 as claimed: from a prompt, an answer either leads to another prompt for
\* the same row and changes nothing else, or returns the row of one of the
\* first min(4, n) listed candidates; the only other way out is the closed
\* channel.
C8_AnswersRepromptOrSelect ==
    [][pc = "prompt" =>
          \/ /\ pc' = "prompt"
             /\ pending' = [pending EXCEPT !.prompt = "invalid selection"]
             /\ UNCHANGED <<lines, description_column, header_parts,
                            expected_columns, description_indices, profiles, k,
                            repaired_rows, output, writes, error, asked>>
          \/ /\ pc' = "rows"
             /\ \E c \in 1..Min(4, Len(pending.candidates)) :
                    repaired_rows' = Append(repaired_rows, pending.candidates[c].row)
          \/ /\ pc' = "failed"
             /\ error'.type = "AmbiguousRowError"]_vars

-----------------------------------------------------------------------------
(* The resolver's policy as the candidates' scores and validity decide it.  *)

Preferred == Range(description_indices)

CandidateRow(raw, i) == _repair_parts_at_index(raw, expected_columns, i)

CandidateScore(raw, i) ==
    _candidate_score(CandidateRow(raw, i), profiles, description_indices, i)

ValidIndices(raw) ==
    {i \in 0..(Width - 1) : _is_candidate_valid(CandidateRow(raw, i), profiles)}

\* the valid candidates V, or all of them when none is valid
Considered(V) == IF V = {} THEN 0..(Width - 1) ELSE V

\* the score of every candidate, by merge index
Scores(raw) == [i \in 0..(Width - 1) |-> CandidateScore(raw, i)]

Lowest(score, S) == CHOOSE i \in S : \A j \in S : RLe(score[i], score[j])

EscalatesAsClaimed(V, score) ==
    LET S == Considered(V)
        best == Lowest(score, S)
        s1 == score[best]
        s2 == score[Lowest(score, S \ {best})]
    IN  \/ /\ Cardinality(V) >= 2
           /\ \/ Cardinality(V \cap Preferred) > 1
              \/ best \notin Preferred
              \/ RLe(RSub(s2, s1), <<1, 10>>)
        \/ /\ V = {}
           /\ Width >= 2
           /\ \/ RLe(RAbs(RSub(s2, s1)), <<1, 10>>)
              \/ s1 = <<0, 1>> /\ s2 = <<0, 1>>
              \/ RGt(s1, <<0, 1>>) /\ RLe(RDiv(s2, s1), <<115, 100>>)

\* the data lines _repair_parts was called on
Examined == Resolved \cup (IF pending.prompt # "none" THEN {k + 1} ELSE {})

\* C9: an overflowing row is escalated exactly in the cases (a) and (b) of the
\* policy; otherwise its row is the one lowest-score candidate of the
\* considered set; a prompt offers the considered set in ascending score.
C9_EscalatesExactlyAsClaimed ==
    Started =>
        \A p \in Examined :
            Overflows(data[p]) =>
                LET raw == _split_line(data[p])
                    V == ValidIndices(raw)
                    S == Considered(V)
                    score == Scores(raw)
                    best == Lowest(score, S)
                    offered == pending.candidates
                IN  /\ FileLine(p) \in asked <=> EscalatesAsClaimed(V, score)
                    /\ (p \in Resolved /\ FileLine(p) \notin asked) =>
                           /\ repaired_rows[RowIndex(p)] = CandidateRow(raw, best)
                           /\ \A j \in S \ {best} : RLt(score[best], score[j])
                    /\ (p \notin Resolved) =>
                           /\ pending.raw_line = data[p]
                           /\ {offered[i].idx : i \in DOMAIN offered} = S
                           /\ Len(offered) = Cardinality(S)
                           /\ \A i \in DOMAIN offered :
                                  /\ offered[i].row = CandidateRow(raw, offered[i].idx)
                                  /\ offered[i].score = score[offered[i].idx]
                           /\ \A i \in 1..(Len(offered) - 1) :
                                  RLe(offered[i].score, offered[i + 1].score)

\* no valid candidate, and only the 15% ratio test makes the two lowest
\* scores ambiguous
C9_Witness ==
    /\ pc = "prompt"
    /\ LET raw == _split_line(pending.raw_line)
           offered == pending.candidates
       IN  /\ ValidIndices(raw) = {}
           /\ RGt(RSub(offered[2].score, offered[1].score), <<1, 10>>)

\* C10 as claimed: a run ends only with the output written or with a
\* configuration or ambiguous-row failure, and it is suspended only inside
\* a prompt; rows are resolved one after another in file order, and a prompt
\* is about the one row the loop stands at, every earlier row being resolved.
C10_EndsAsClaimed ==
    /\ pc \in {"start", "profile", "rows", "prompt", "done", "failed"}
    /\ pc = "done" => writes = 1
    /\ pc = "failed" => (ConfigurationError \/ error.type = "AmbiguousRowError")
    /\ pending.prompt # "none" <=>
           (pc = "prompt" \/ (pc = "failed" /\ ~ConfigurationError))
    /\ Started => Len(repaired_rows) = 1 + Cardinality(Resolved)
    /\ pc = "prompt" =>
           /\ pending.line_number = FileLine(k + 1)
           /\ pending.raw_line = data[k + 1]

====
